---- MODULE Spec2Model ----
(***************************************************************************)
(* Model of stockapp/views.py: the query interpretation and price matching *)
(* pipeline (extract_stock_info, search_polygon_ticker, get_stock_data)    *)
(* and the three request handlers built on it (StockQueryAPIView,          *)
(* StockDataSearchAPIView, StockExportExcelAPIView).                       *)
(*                                                                         *)
(* One request is in flight per behaviour: Init draws the request and the  *)
(* behaviour of the external services for it (NLP engine, reference-data   *)
(* service, market-data provider); one action per handler produces the     *)
(* response.  Prices are integers (the unit is irrelevant to the           *)
(* comparisons), dates are day numbers in the provider's ascending order.  *)
(***************************************************************************)
EXTENDS Integers, Sequences, FiniteSets, TLC

VARIABLES
    request,          \* the HTTP request: kind, serializer verdict, validated data
    world,            \* what the external services answer for this request
    pc,               \* "received" -> "responded"
    intent,           \* value returned by extract_stock_info, None before it ran
    company_options,  \* local of StockQueryAPIView.post
    stock_data,       \* local of StockDataSearchAPIView.post
    response,         \* the response the framework sends
    calls             \* network calls issued so far, in order

vars == <<request, world, pc, intent, company_options, stock_data, response, calls>>

----------------------------------------------------------------------------
(* Bounds of the model *)

MaxTail == 3        \* rows appended to the provider history, free close prices
MaxPrice == 3       \* close prices of the free rows are 1..MaxPrice
MaxEnts == 2        \* entities per text, interpreter specification
MaxToks == 2        \* tokens per text, interpreter specification
MaxReqEnts == 2     \* entities per text, handler specification
MaxReqToks == 1     \* tokens per text, handler specification

(* Program constant: sorted_data.head(10) *)
HeadLimit == 10

None == "None"
GreaterThanEqual == "greater_than_equal"
LessThanEqual == "less_than_equal"

SeqsUpTo(S, n) == UNION {[1..k -> S] : k \in 0..n}

Abs(x) == IF x < 0 THEN -x ELSE x

SetMax(S) == CHOOSE x \in S : \A y \in S : y <= x

----------------------------------------------------------------------------
(* Words, as character sequences, so that Python's substring test  `in`    *)
(* is computed and not assumed.                                            *)

w_above == <<"a","b","o","v","e">>
w_Above == <<"A","b","o","v","e">>
w_below == <<"b","e","l","o","w">>
w_less == <<"l","e","s","s">>
w_unless == <<"u","n","l","e","s","s">>
w_greater == <<"g","r","e","a","t","e","r">>
w_great == <<"g","r","e","a","t">>
w_exceed == <<"e","x","c","e","e","d">>
w_exceeded == <<"e","x","c","e","e","d","e","d">>
w_Apple == <<"A","p","p","l","e">>

(* sub in s *)
Contains(sub, s) ==
    \E i \in 1..(Len(s) - Len(sub) + 1) : SubSeq(s, i, i + Len(sub) - 1) = sub

(* Tokens the NLP engine may yield: surface form and lemma *)
TokenPool ==
    { [text |-> w_above,    lemma_ |-> w_above],
      [text |-> w_Above,    lemma_ |-> w_above],
      [text |-> w_below,    lemma_ |-> w_below],
      [text |-> w_less,     lemma_ |-> w_less],
      [text |-> w_unless,   lemma_ |-> w_unless],
      [text |-> w_greater,  lemma_ |-> w_great],
      [text |-> w_exceeded, lemma_ |-> w_exceed],
      [text |-> w_Apple,    lemma_ |-> w_Apple] }

(* Entities the NLP engine may yield: text and label *)
EntityPool ==
    { [text |-> "Apple",    label_ |-> "ORG"],
      [text |-> "Seoul",    label_ |-> "GPE"],
      [text |-> "150",      label_ |-> "MONEY"],
      [text |-> "100",      label_ |-> "CARDINAL"],
      [text |-> "Tim Cook", label_ |-> "PERSON"],
      [text |-> "Asia",     label_ |-> "LOC"] }

Docs(maxEnts, maxToks) ==
    [ents : SeqsUpTo(EntityPool, maxEnts), tokens : SeqsUpTo(TokenPool, maxToks)]

----------------------------------------------------------------------------
(* extract_stock_info *)

(* doc = nlp(query): the engine is a black box, its answer is in world *)
nlp(query) == world.doc

(* Python truthiness of an optional string *)
Falsy(x) == x = None \/ x = ""

(* body of  for ent in doc.ents ; acc = <<stock_name, price_threshold>> *)
EntStepFirstWins(ent, acc) ==
    IF ent.label_ \in {"MONEY", "CARDINAL"}
    THEN <<acc[1], IF acc[2] = None THEN ent.text ELSE acc[2]>>
    ELSE IF ent.label_ \in {"ORG", "GPE"}
         THEN <<IF acc[1] = None THEN ent.text ELSE acc[1], acc[2]>>
         ELSE acc

EntStep(ent, acc) ==
    IF ent.label_ \in {"MONEY", "CARDINAL"}
    THEN <<acc[1], ent.text>>
    ELSE IF ent.label_ \in {"ORG", "GPE"}
         THEN <<ent.text, acc[2]>>
         ELSE acc

RECURSIVE EntLoop(_, _, _)
EntLoop(ents, i, acc) ==
    IF i > Len(ents) THEN acc ELSE EntLoop(ents, i + 1, EntStep(ents[i], acc))

(* body of  for token in doc *)
TokStepStickyLess(token, comparison_type) ==
    IF comparison_type = LessThanEqual
    THEN comparison_type
    ELSE IF \/ Contains(w_exceed, token.lemma_)
            \/ Contains(w_greater, token.text)
            \/ Contains(w_above, token.text)
         THEN GreaterThanEqual
         ELSE IF Contains(w_less, token.text) \/ Contains(w_below, token.text)
              THEN LessThanEqual
              ELSE comparison_type

TokStep(token, comparison_type) ==
    IF \/ Contains(w_exceed, token.lemma_)
       \/ Contains(w_greater, token.text)
       \/ Contains(w_above, token.text)
    THEN GreaterThanEqual
    ELSE IF Contains(w_less, token.text) \/ Contains(w_below, token.text)
         THEN LessThanEqual
         ELSE comparison_type

RECURSIVE TokLoop(_, _, _)
TokLoop(tokens, i, comparison_type) ==
    IF i > Len(tokens)
    THEN comparison_type
    ELSE TokLoop(tokens, i + 1, TokStep(tokens[i], comparison_type))

extract_stock_info(query) ==
    LET doc == nlp(query)
        found == EntLoop(doc.ents, 1, <<None, None>>)
        comparison_type == TokLoop(doc.tokens, 1, GreaterThanEqual)
    IN  <<found[1], found[2], comparison_type>>

----------------------------------------------------------------------------
(* search_polygon_ticker *)

(* item.get(key, "N/A") *)
ItemGet(item, key) == IF key \in DOMAIN item THEN item[key] ELSE "N/A"

ResultItems ==
    { [name |-> "Apple Inc.", ticker |-> "AAPL", primary_exchange |-> "XNAS"],
      [name |-> "Apple Hospitality", ticker |-> "APLE"] }

(* What the reference-data service does with the GET *)
RefOutcomes ==
    {[kind |-> "response", status |-> 200, data |-> [results |-> r]] :
        r \in SeqsUpTo(ResultItems, 1)}
    \cup {[kind |-> "response", status |-> 200, data |-> [count |-> 0]]}
    \cup {[kind |-> "response", status |-> s, data |-> [error |-> "x"]] : s \in {404, 500}}
    \cup {[kind |-> k] : k \in {"ConnectionError", "Timeout"}}

(* except requests.exceptions.HTTPError: the only exception class caught *)
Caught == {"HTTPError"}

search_polygon_ticker(company_name) ==
    LET ref == world.ref
        \* requests.get raises on a transport failure, raise_for_status on 4xx/5xx
        raised == IF ref.kind # "response" THEN ref.kind
                  ELSE IF ref.status >= 400 /\ ref.status < 600 THEN "HTTPError"
                  ELSE None
    IN  IF raised # None
        THEN IF raised \in Caught
             THEN [exc |-> None, value |-> <<>>]
             ELSE [exc |-> raised, value |-> <<>>]
        ELSE LET results == IF "results" \in DOMAIN ref.data
                            THEN ref.data.results ELSE <<>>
             IN  [exc |-> None,
                  value |-> [i \in 1..Len(results) |->
                               [name |-> ItemGet(results[i], "name"),
                                ticker |-> ItemGet(results[i], "ticker"),
                                exchange |-> ItemGet(results[i], "primary_exchange")]]]

----------------------------------------------------------------------------
(* get_stock_data *)

(* Texts float() parses, with their values; any other text raises ValueError *)
NumericText ==
    { <<"0", 0>>, <<"1", 1>>, <<"2", 2>>, <<"3", 3>>, <<"4", 4>>, <<"5", 5>>,
      <<"10", 10>>, <<"11", 11>>, <<"100", 100>>, <<"150", 150>> }

Float(text) ==
    IF \E nt \in NumericText : nt[1] = text
    THEN [exc |-> None, value |-> (CHOOSE nt \in NumericText : nt[1] = text)[2]]
    ELSE [exc |-> "ValueError", value |-> 0]

(* hist.empty *)
HistEmptyNever(hist) == FALSE

HistEmpty(hist) == Len(hist) = 0

(* which branch of  if ... elif ...  assigns result; "none" when neither does *)
FilterBranchElse(comparison_type) ==
    IF comparison_type = GreaterThanEqual THEN "ge" ELSE "le"

FilterBranch(comparison_type) ==
    IF comparison_type = GreaterThanEqual THEN "ge"
    ELSE IF comparison_type = LessThanEqual THEN "le"
    ELSE "none"

(* the rows of s at the positions in mask, order preserved (boolean indexing) *)
RECURSIVE Masked(_, _, _)
Masked(s, i, mask) ==
    IF i > Len(s) THEN <<>>
    ELSE (IF i \in mask THEN <<s[i]>> ELSE <<>>) \o Masked(s, i + 1, mask)

(* hist[hist["Close"] >= p]  /  hist[hist["Close"] <= p] *)
FilterRowsStrict(hist, branch, p) ==
    IF branch = "ge"
    THEN Masked(hist, 1, {i \in 1..Len(hist) : hist[i].Close > p})
    ELSE Masked(hist, 1, {i \in 1..Len(hist) : hist[i].Close < p})

FilterRows(hist, branch, p) ==
    IF branch = "ge"
    THEN Masked(hist, 1, {i \in 1..Len(hist) : hist[i].Close >= p})
    ELSE Masked(hist, 1, {i \in 1..Len(hist) : hist[i].Close <= p})

(* result.loc[:, "price_diff"] = abs(result["Close"] - float(price)) *)
PriceDiff(row, p) == Abs(row.Close - p)

RECURSIVE Perms(_)
Perms(S) ==
    IF S = {} THEN {<<>>}
    ELSE UNION {{<<x>> \o q : q \in Perms(S \ {x})} : x \in S}

(* every order of the positions S that is non-decreasing in key *)
RECURSIVE SortedOrders(_, _)
SortedOrders(S, key) ==
    IF S = {} THEN {<<>>}
    ELSE LET m == CHOOSE k \in {key[i] : i \in S} : \A j \in S : k <= key[j]
             G == {i \in S : key[i] = m}
         IN  UNION {{g \o q : q \in SortedOrders(S \ G, key)} : g \in Perms(G)}

(* result.sort_values(by="price_diff"): the default kind is quicksort, which  *)
(* is not stable, so rows of equal price_diff come out in any order.          *)
SortValuesUnsorted(rows, p) == {rows}

SortValuesDescending(rows, p) ==
    LET key == [i \in 1..Len(rows) |-> 0 - PriceDiff(rows[i], p)]
    IN  {[k \in 1..Len(rows) |-> rows[order[k]]] :
            order \in SortedOrders(1..Len(rows), key)}

SortValues(rows, p) ==
    LET key == [i \in 1..Len(rows) |-> PriceDiff(rows[i], p)]
    IN  {[k \in 1..Len(rows) |-> rows[order[k]]] :
            order \in SortedOrders(1..Len(rows), key)}

(* sorted_data['Date'].dt.strftime('%Y-%m-%d'): the time of day is dropped *)
FormatDate(timestamp) == timestamp.day

(* sorted_data.head(10).reset_index()[["Date", "Close"]].to_dict("records") *)
HeadRecords(sorted_data) ==
    [k \in 1..(IF Len(sorted_data) < HeadLimit THEN Len(sorted_data) ELSE HeadLimit) |->
        [Date |-> FormatDate(sorted_data[k].Date), Close |-> sorted_data[k].Close]]

(* The set of outcomes of one call: [exc, value] *)
get_stock_data(ticker, price, comparison_type) ==
    LET market == world.market      \* yf.Ticker(ticker).history(period="max")
        hist == market.hist
        branch == FilterBranch(comparison_type)
        f == Float(price)
    IN  IF market.raises THEN {[exc |-> "ProviderError", value |-> <<>>]}
        ELSE IF HistEmpty(hist) THEN {[exc |-> None, value |-> <<>>]}
        ELSE IF branch = "none" THEN {[exc |-> "UnboundLocalError", value |-> <<>>]}
        ELSE IF f.exc # None THEN {[exc |-> f.exc, value |-> <<>>]}
        ELSE {[exc |-> None, value |-> HeadRecords(sorted_data)] :
                sorted_data \in SortValues(FilterRows(hist, branch, f.value), f.value)}

----------------------------------------------------------------------------
(* Responses *)

Respond(status, kind, detail) == [status |-> status, kind |-> kind, detail |-> detail]

(* an exception that leaves the handler: the framework answers 500 *)
Unhandled(exc) == Respond(500, "exception", exc)

NoResponse == Respond(0, "none", None)

NoIntent == <<>>

----------------------------------------------------------------------------
(* StockQueryAPIView.post *)

QueryPost ==
    /\ pc = "received"
    /\ request.kind = "query"
    /\ pc' = "responded"
    /\ UNCHANGED <<request, world, stock_data>>
    /\ IF ~request.valid
       THEN /\ response' = Respond(400, "serializer_errors", None)
            /\ UNCHANGED <<intent, company_options, calls>>
       ELSE LET info == extract_stock_info(request.data.query)
                company == info[1]
                price == info[2]
            IN  /\ intent' = info
                /\ IF Falsy(company) \/ Falsy(price)
                   THEN /\ response' = Respond(400, "error",
                                               "Unable to extract stock information")
                        /\ UNCHANGED <<company_options, calls>>
                   ELSE LET r == search_polygon_ticker(company)
                        IN  /\ calls' = Append(calls, "reference-data")
                            /\ IF r.exc # None
                               THEN /\ response' = Unhandled(r.exc)
                                    /\ UNCHANGED company_options
                               ELSE /\ company_options' = r.value
                                    /\ response' =
                                         IF Len(r.value) = 0
                                         THEN Respond(404, "error",
                                                "No stock data available for the given query")
                                         ELSE Respond(200, "json", None)

----------------------------------------------------------------------------
(* StockDataSearchAPIView.post *)

(* if len(stock_data) == 0: 404, else 200 *)
SearchResponse(data) ==
    IF Len(data) = 0
    THEN Respond(404, "error", "No stock data found for the given query")
    ELSE Respond(200, "json", None)

SearchPost ==
    /\ pc = "received"
    /\ request.kind = "search"
    /\ pc' = "responded"
    /\ UNCHANGED <<request, world, intent, company_options>>
    /\ IF ~request.valid
       THEN /\ response' = Respond(400, "serializer_errors", None)
            /\ UNCHANGED <<stock_data, calls>>
       ELSE \E out \in get_stock_data(request.data.ticker, request.data.price,
                                      request.data.comparison_type) :
                /\ calls' = Append(calls, "market-data")
                /\ IF out.exc # None
                   THEN /\ response' = Unhandled(out.exc)
                        /\ UNCHANGED stock_data
                   ELSE /\ stock_data' = out.value
                        /\ response' = SearchResponse(out.value)

----------------------------------------------------------------------------
(* StockExportExcelAPIView.post *)

(* a, b = t *)
UnpackPair(t) ==
    IF Len(t) = 2
    THEN [exc |-> None, a |-> t[1], b |-> t[2]]
    ELSE [exc |-> "ValueError", a |-> None, b |-> None]

(* the handler from line 250 on, once stock_symbol and price are bound: *)
(* the set of <<response, calls>> it can end with                       *)
ExportRest(stock_symbol, price) ==
    IF Falsy(stock_symbol) \/ Falsy(price)
    THEN {<<Respond(400, "error", "Unable to extract stock information"), calls>>}
    ELSE {<<IF out.exc # None
            THEN Respond(404, "error", "Failed to retrieve stock data")
            ELSE IF Len(out.value) = 0
                 THEN Unhandled("KeyError")     \* no Date / Close column to select
                 ELSE Respond(200, "attachment", stock_symbol),
            Append(calls, "market-data")>> :
                out \in get_stock_data(stock_symbol, price, GreaterThanEqual)}

ExportPost ==
    /\ pc = "received"
    /\ request.kind = "export"
    /\ pc' = "responded"
    /\ UNCHANGED <<request, world, company_options, stock_data>>
    /\ IF ~request.valid
       THEN /\ response' = Respond(400, "serializer_errors", None)
            /\ UNCHANGED <<intent, calls>>
       ELSE LET info == extract_stock_info(request.data.query)
                u == UnpackPair(info)
            IN  /\ intent' = info
                /\ IF u.exc # None
                   THEN /\ response' = Unhandled(u.exc)
                        /\ UNCHANGED calls
                   ELSE \E end \in ExportRest(u.a, u.b) :
                            /\ response' = end[1]
                            /\ calls' = end[2]

----------------------------------------------------------------------------
(* The interpreter alone, for the claims about extract_stock_info *)

Interpret ==
    /\ pc = "received"
    /\ request.kind = "interpret"
    /\ pc' = "responded"
    /\ intent' = extract_stock_info(request.data.query)
    /\ UNCHANGED <<request, world, company_options, stock_data, response, calls>>

----------------------------------------------------------------------------
(* Inputs *)

Timestamp(d) == [day |-> d, time |-> "00:00:00-05:00"]

(* a provider series from its closing prices, one row per day, ascending *)
History(closes) ==
    [d \in 1..Len(closes) |-> [Date |-> Timestamp(d), Close |-> closes[d]]]

(* HeadLimit days of distinct prices: with one more row head(10) truncates *)
Ramp == [d \in 1..HeadLimit |-> d]

Hists ==
    {History(base \o tail) :
        base \in {<<>>, Ramp}, tail \in SeqsUpTo(1..MaxPrice, MaxTail)}

Markets ==
    {[raises |-> FALSE, hist |-> h] : h \in Hists}
    \cup {[raises |-> TRUE, hist |-> <<>>]}

SearchPrices == {"0", "1", "2", "3", "4", "5", "10", "11"}

ComparisonTypes == {GreaterThanEqual, LessThanEqual, "equal"}

AnyDoc == [ents |-> <<>>, tokens |-> <<>>]
AnyRef == [kind |-> "Timeout"]
AnyMarket == [raises |-> TRUE, hist |-> <<>>]

ExportMarkets ==
    {AnyMarket, [raises |-> FALSE, hist |-> <<>>],
     [raises |-> FALSE, hist |-> History(Ramp)]}

QueryData == [query |-> "q"]

InitLocals ==
    /\ pc = "received"
    /\ intent = NoIntent
    /\ company_options = <<>>
    /\ stock_data = <<>>
    /\ response = NoResponse
    /\ calls = <<>>

(* a request the serializer rejects never reaches the services *)
Init ==
    /\ InitLocals
    /\ \/ /\ request = [kind |-> "query", valid |-> TRUE, data |-> QueryData]
          /\ world \in [doc : Docs(MaxReqEnts, MaxReqToks), ref : RefOutcomes,
                         market : {AnyMarket}]
       \/ /\ request \in [kind : {"search"}, valid : {TRUE},
                           data : [ticker : {"AAPL"}, price : SearchPrices,
                                   comparison_type : ComparisonTypes]]
          /\ world \in [doc : {AnyDoc}, ref : {AnyRef}, market : Markets]
       \/ /\ request = [kind |-> "export", valid |-> TRUE, data |-> QueryData]
          /\ world \in [doc : Docs(MaxReqEnts, MaxReqToks), ref : {AnyRef},
                         market : ExportMarkets]
       \/ /\ request \in [kind : {"query", "export"}, valid : {FALSE},
                           data : {QueryData, [other |-> "x"]}]
          /\ world = [doc |-> AnyDoc, ref |-> AnyRef, market |-> AnyMarket]
       \/ /\ request \in [kind : {"search"}, valid : {FALSE},
                           data : {[ticker |-> "AAPL"], [price |-> "x"]}]
          /\ world = [doc |-> AnyDoc, ref |-> AnyRef, market |-> AnyMarket]

Next == QueryPost \/ SearchPost \/ ExportPost

Spec == Init /\ [][Next]_vars

InitInterpret ==
    /\ InitLocals
    /\ request = [kind |-> "interpret", valid |-> TRUE, data |-> QueryData]
    /\ world \in [doc : Docs(MaxEnts, MaxToks), ref : {AnyRef}, market : {AnyMarket}]

NextInterpret == Interpret

SpecInterpret == InitInterpret /\ [][NextInterpret]_vars

----------------------------------------------------------------------------
(* Vocabulary of the properties *)

Responded == pc = "responded"

(* a search request the serializer accepted, answered *)
SearchDone == Responded /\ request.kind = "search" /\ request.valid

(* ... whose call of get_stock_data returned (it did not raise) *)
SearchReturned == SearchDone /\ response.kind # "exception"

Threshold == Float(request.data.price).value

Dist(close) == Abs(close - Threshold)

ValidDirection == request.data.comparison_type \in {GreaterThanEqual, LessThanEqual}

Satisfies(close) ==
    IF request.data.comparison_type = GreaterThanEqual
    THEN close >= Threshold
    ELSE close <= Threshold

SatisfyingDays == {i \in DOMAIN world.market.hist : Satisfies(world.market.hist[i].Close)}

ReturnedDays == {stock_data[k].Date : k \in DOMAIN stock_data}

----------------------------------------------------------------------------
C3_StableTies ==
    SearchReturned =>
        \A i, j \in DOMAIN stock_data :
            (i < j /\ Dist(stock_data[i].Close) = Dist(stock_data[j].Close))
                => stock_data[i].Date < stock_data[j].Date

(* C3, amended: a row strictly closer to the threshold precedes every row   *)
(* farther from it; nothing is promised about rows of equal distance.       *)
C3_StrictlyCloserFirst ==
    SearchReturned =>
        \A i, j \in DOMAIN stock_data :
            Dist(stock_data[i].Close) < Dist(stock_data[j].Close) => i < j

(* two rows of equal distance returned with the later-dated one first *)
C3_Witness ==
    /\ SearchReturned
    /\ \E i, j \in DOMAIN stock_data :
          /\ i < j
          /\ Dist(stock_data[i].Close) = Dist(stock_data[j].Close)
          /\ stock_data[i].Date > stock_data[j].Date

(* C4: whatever way the reference-data service fails (HTTP error status,    *)
(* connection error, timeout), search_polygon_ticker returns no candidates  *)
(* and no exception reaches its caller.                                     *)
RefFailed ==
    \/ world.ref.kind # "response"
    \/ world.ref.status < 200
    \/ world.ref.status >= 300

C4_ResolveSwallowsEveryFailure ==
    (Responded /\ request.kind = "query" /\ calls # <<>> /\ RefFailed) =>
        /\ response.kind # "exception"
        /\ company_options = <<>>

(* C5: when the interpreted intent lacks the company or the price, the      *)
(* request ends with a 400 response and no network call was issued; a       *)
(* network call is issued only when both were found.                        *)
IntentIncomplete == Falsy(intent[1]) \/ Falsy(intent[2])

C5_IncompleteIntentRejected ==
    (Responded /\ request.kind \in {"query", "export"} /\ request.valid) =>
        /\ IntentIncomplete => (response.status = 400 /\ calls = <<>>)
        /\ calls # <<>> => ~IntentIncomplete

(* C6: an export request with a valid query always ends with a response     *)
(* (400, 404 or the attachment), never with an exception leaving the        *)
(* handler, and with 404 when the market-data provider raised.              *)
C6_ExportAlwaysResponds ==
    (Responded /\ request.kind = "export" /\ request.valid) =>
        /\ response.kind # "exception"
        /\ response.status \in {400, 404, 200}
        /\ (calls # <<>> /\ world.market.raises) => response.status = 404

(* C7: the direction is always set; it is greater_than_equal when no token  *)
(* matches a keyword, else the direction of the last matching token.        *)
GreaterTokens ==
    {t \in TokenPool : t.text \in {w_above, w_greater} \/ t.lemma_ = w_exceed}

LessTokens == {t \in TokenPool : t.text \in {w_below, w_less, w_unless}}

C7_LastKeywordWins ==
    (Responded /\ request.kind = "interpret") =>
        LET tokens == world.doc.tokens
            M == {i \in DOMAIN tokens : tokens[i] \in GreaterTokens \cup LessTokens}
        IN  /\ intent[3] \in {GreaterThanEqual, LessThanEqual}
            /\ M = {} => intent[3] = GreaterThanEqual
            /\ M # {} =>
                  intent[3] = IF tokens[SetMax(M)] \in GreaterTokens
                              THEN GreaterThanEqual ELSE LessThanEqual

(* "above" then "below" gives less_than_equal *)
C7_Witness ==
    /\ Responded
    /\ request.kind = "interpret"
    /\ Len(world.doc.tokens) = 2
    /\ world.doc.tokens[1].text = w_above
    /\ world.doc.tokens[2].text = w_below
    /\ intent[3] = LessThanEqual

(* C8: the price is the text of the last MONEY or CARDINAL entity, the      *)
(* company the text of the last ORG or GPE entity; a field without such an  *)
(* entity is None; other entities change nothing.                           *)
LastOf(ents, labels) ==
    LET M == {i \in DOMAIN ents : ents[i].label_ \in labels}
    IN  IF M = {} THEN None ELSE ents[SetMax(M)].text

C8_LastEntityWins ==
    (Responded /\ request.kind = "interpret") =>
        /\ intent[1] = LastOf(world.doc.ents, {"ORG", "GPE"})
        /\ intent[2] = LastOf(world.doc.ents, {"MONEY", "CARDINAL"})

(* two price entities with different texts: the second one is the price *)
C8_Witness ==
    /\ Responded
    /\ request.kind = "interpret"
    /\ Len(world.doc.ents) = 2
    /\ world.doc.ents[1].label_ = "MONEY"
    /\ world.doc.ents[2].label_ = "CARDINAL"
    /\ intent[2] = world.doc.ents[2].text
    /\ intent[1] = None

(* C9: on an empty provider series get_stock_data returns the empty         *)
(* sequence without raising, whatever the threshold and direction; and the  *)
(* search handler answers 404 whenever the match result is empty (empty     *)
(* series, or no row satisfying the comparison).                            *)
C9_EmptyMatchIsNotFound ==
    (SearchDone /\ ~world.market.raises) =>
        /\ world.market.hist = <<>> =>
              /\ response.kind # "exception"
              /\ stock_data = <<>>
        /\ (world.market.hist # <<>> /\ ValidDirection /\ SatisfyingDays = {}) =>
              /\ response.kind # "exception"
              /\ stock_data = <<>>
        /\ (response.kind # "exception" /\ stock_data = <<>>) =>
              response.status = 404

(* an empty series asked with a direction that is neither of the two *)
C9_Witness ==
    /\ SearchDone
    /\ ~world.market.raises
    /\ world.market.hist = <<>>
    /\ ~ValidDirection
    /\ response.status = 404

(* C10: with a direction that is neither greater_than_equal nor             *)
(* less_than_equal, get_stock_data raises on a non-empty series (no result  *)
(* sequence), and returns the empty sequence on an empty series.            *)
C10_NoDefaultDirection ==
    (SearchDone /\ ~world.market.raises /\ ~ValidDirection) =>
        IF world.market.hist # <<>>
        THEN response = Unhandled("UnboundLocalError") /\ stock_data = <<>>
        ELSE response.kind # "exception" /\ stock_data = <<>>

C10_Witness ==
    /\ SearchDone
    /\ ~ValidDirection
    /\ Len(world.market.hist) > HeadLimit
    /\ response = Unhandled("UnboundLocalError")

====
